---- MODULE Spec2Model ----
(***************************************************************************)
(* Price tracker (src/main.rs): three instruments, each with its own CSV   *)
(* log.  main() first creates the missing logs with a header line, then    *)
(* loops forever: fetch each instrument's price, append it to its log,     *)
(* sleep.                                                                  *)
(*                                                                         *)
(* The file system is modelled per path: whether the file exists, whether  *)
(* the process may read it, whether it may write it, and its lines.        *)
(* A line is written whole or not at all (one write_all of one short       *)
(* line); a torn line left by an interrupted write is not represented.     *)
(***************************************************************************)
EXTENDS Naturals, Sequences, FiniteSets

\* ---------------------------------------------------------------- bounds
MaxFree == 3         \* lines that fit on the disk when the process is first started
MaxStreak == 2       \* cycles in which every instrument failed are counted up to this

\* ---------------------------------------------------------------- data
Prices == {7}

HeaderLine == [kind |-> "header", price |-> 0]

\* format!("{},{:.2}\n", timestamp, price)
RecordLine(p) == [kind |-> "record", price |-> p]

\* The three instruments, in the order of the vec! in main.
assets ==
    << [name |-> "Bitcoin",  filename |-> "bitcoin_prices.csv",  id |-> "bitcoin"],
       [name |-> "Ethereum", filename |-> "ethereum_prices.csv", id |-> "ethereum"],
       [name |-> "S&P 500",  filename |-> "sp500_prices.csv",    id |-> "^GSPC"] >>

Assets == DOMAIN assets

Paths == {"bitcoin_prices.csv", "ethereum_prices.csv", "sp500_prices.csv"}

\* InitFilename with the first two arms of the match exchanged.
InitFilename_swapped(asset) ==
    IF asset.name = "Bitcoin" THEN "ethereum_prices.csv"
    ELSE IF asset.name = "Ethereum" THEN "bitcoin_prices.csv"
    ELSE "sp500_prices.csv"

\* The match on asset.name() that picks the file initialization opens and creates.
InitFilename(asset) ==
    IF asset.name = "Bitcoin" THEN "bitcoin_prices.csv"
    ELSE IF asset.name = "Ethereum" THEN "ethereum_prices.csv"
    ELSE "sp500_prices.csv"

\* The file save_to_file opens: the instrument's filename field.
SaveFilename(asset) == asset.filename

\* ---------------------------------------------------------------- errors
\* An error value: its variant and its message.  The messages the libraries make
\* (e.to_string()) are all written "e"; the two the program makes are spelled out.
NoError == [kind |-> "none", msg |-> ""]

NetworkError(msg) == [kind |-> "NetworkError", msg |-> msg]

ParseError(msg) == [kind |-> "ParseError", msg |-> msg]

FileError(msg) == [kind |-> "FileError", msg |-> msg]

Ok(p) == [ok |-> TRUE, price |-> p, err |-> NoError]

Err(e) == [ok |-> FALSE, price |-> 0, err |-> e]

\* ---------------------------------------------------------------- responses
\* A response body: JSON or not; if JSON, an object with one key `outer` holding an
\* object with one key `inner`, whose value is a number, a numeric string or
\* another string.
OuterKeys == {"bitcoin", "ethereum", "Global Quote"}

InnerKeys == {"usd", "05. price"}

ValueKinds == {"number", "numstr", "badstr"}

NoBody == [wellFormed |-> FALSE, outer |-> "bitcoin", inner |-> "usd",
           value |-> "number", num |-> 7]

Bodies ==
    {NoBody} \cup [wellFormed : {TRUE}, outer : OuterKeys, inner : InnerKeys,
                   value : ValueKinds, num : Prices]

\* What one GET yields: the transport fails, reading the body fails, or a body.
Responses ==
    {[status |-> "neterr", body |-> NoBody], [status |-> "readerr", body |-> NoBody]}
    \cup {[status |-> "ok", body |-> b] : b \in Bodies}

\* ExtractUsd with unwrap_or(0.0) in place of ok_or_else: a missing field reads as 0.
ExtractUsd_default(body, id, name) ==
    IF body.outer = id /\ body.inner = "usd" /\ body.value = "number"
    THEN Ok(body.num)
    ELSE Ok(0)

\* json.get(id).and_then(get("usd")).and_then(as_f64).ok_or_else(ParseError)
ExtractUsd(body, id, name) ==
    IF body.outer = id /\ body.inner = "usd" /\ body.value = "number"
    THEN Ok(body.num)
    ELSE Err(ParseError("Failed to extract " \o name \o " price"))

\* Bitcoin::fetch_price and Ethereum::fetch_price
CryptoFetchPrice(asset, resp) ==
    IF resp.status = "neterr" THEN Err(NetworkError("e"))
    ELSE IF resp.status = "readerr" THEN Err(ParseError("e"))
    ELSE IF ~resp.body.wellFormed THEN Err(ParseError("e"))
    ELSE ExtractUsd(resp.body, asset.id, asset.name)

\* SP500::fetch_price: the body is deserialized into AlphaVantageResponse
\* ("Global Quote" -> "05. price" -> String), then the string is parsed as f64.
SP500FetchPrice(asset, resp) ==
    IF resp.status = "neterr" THEN Err(NetworkError("e"))
    ELSE IF resp.status = "readerr" THEN Err(ParseError("e"))
    ELSE IF ~resp.body.wellFormed THEN Err(ParseError("e"))
    ELSE IF ~(resp.body.outer = "Global Quote" /\ resp.body.inner = "05. price"
              /\ resp.body.value \in {"numstr", "badstr"})
         THEN Err(ParseError("e"))
    ELSE IF resp.body.value = "numstr" THEN Ok(resp.body.num)
    ELSE Err(ParseError("e"))

\* asset.fetch_price(): dispatch on the instrument's type
fetch_price(asset, resp) ==
    IF asset.name = "S&P 500" THEN SP500FetchPrice(asset, resp)
    ELSE CryptoFetchPrice(asset, resp)

\* ---------------------------------------------------------------- file system
Absent == [exists |-> FALSE, readable |-> FALSE, writable |-> FALSE, content |-> << >>]

\* File::open(path): read-only open; fails when the file is absent or unreadable.
FileOpenOk(f) == f.exists /\ f.readable

\* File::create(path) and OpenOptions::create(true): the open succeeds on a writable
\* existing file, or creates the file when the directory allows it.
WriteOpenOk(f, dirW) == IF f.exists THEN f.writable ELSE dirW

\* File::create: the file, created or truncated to nothing.
FileCreate(f) ==
    IF f.exists THEN [f EXCEPT !.content = << >>]
    ELSE [exists |-> TRUE, readable |-> TRUE, writable |-> TRUE, content |-> << >>]

\* OpenOptions::new().create(true).append(true).open: the file, created empty
\* when absent, otherwise as it is.
OpenAppend(f) ==
    IF f.exists THEN f
    ELSE [exists |-> TRUE, readable |-> TRUE, writable |-> TRUE, content |-> << >>]

\* file.write_all(line) at the end of the file
WriteAll(f, line) == [f EXCEPT !.content = Append(f.content, line)]

\* ---------------------------------------------------------------- state
VARIABLES
    fs,           \* path -> file
    dirWritable,  \* files can be created in the working directory
    free,         \* lines that still fit on the disk
    pc,           \* where main is: "init", "fetch", "save", "sleep", "panicked"
    idx,          \* the instrument the for loop is at
    price,        \* the price fetched and not yet saved (0: none)
    outcome,      \* instrument -> its attempt in this cycle: "pending", "saved", "failed"
    report,       \* what the last step wrote to the error channel (NoError: nothing)
    saved,        \* instrument -> successful saves since initialization last made its log
    fresh,        \* instrument -> initialization found its log absent and created it
    fetched,      \* names of the instruments fetched in this cycle, in order
    streak        \* consecutive finished cycles in which every instrument failed

vars == <<fs, dirWritable, free, pc, idx, price, outcome, report, saved, fresh,
          fetched, streak>>

Pending == [i \in Assets |-> "pending"]

Populated == <<HeaderLine, RecordLine(7)>>

\* The logs the process may find when it is first started: none, an empty file,
\* a log with a record, and that log unreadable or read-only.
StartFiles ==
    {Absent,
     [exists |-> TRUE, readable |-> TRUE,  writable |-> TRUE,  content |-> << >>],
     [exists |-> TRUE, readable |-> TRUE,  writable |-> TRUE,  content |-> Populated],
     [exists |-> TRUE, readable |-> FALSE, writable |-> TRUE,  content |-> Populated],
     [exists |-> TRUE, readable |-> TRUE,  writable |-> FALSE, content |-> Populated]}

Init ==
    /\ fs \in [Paths -> StartFiles]
    /\ dirWritable \in BOOLEAN
    /\ free = MaxFree
    /\ pc = "init"
    /\ idx = 1
    /\ price = 0
    /\ outcome = Pending
    /\ report = NoError
    /\ saved = [i \in Assets |-> 0]
    /\ fresh = [i \in Assets |-> FALSE]
    /\ fetched = << >>
    /\ streak = 0

\* for asset in &assets: after the last one the loop is left for `after`.
Advance(after) ==
    IF idx < Len(assets) THEN /\ idx' = idx + 1
                              /\ UNCHANGED pc
    ELSE /\ idx' = 1
         /\ pc' = after

\* One iteration of the initialization loop: if File::open fails, File::create
\* (unwrap) and write_all of the header (unwrap).
EnsureInitialized(written) ==
    /\ pc = "init"
    /\ LET path == InitFilename(assets[idx])
           f == fs[path]
       IN  IF FileOpenOk(f)
           THEN /\ Advance("fetch")
                /\ UNCHANGED <<fs, free, fresh, saved>>
           ELSE IF ~WriteOpenOk(f, dirWritable)
           THEN \* File::create(...).unwrap() panics
                /\ pc' = "panicked"
                /\ UNCHANGED <<fs, free, idx, fresh, saved>>
           ELSE /\ saved' = [saved EXCEPT ![idx] = 0]
                /\ IF written /\ free + Len(f.content) > 0
                   THEN /\ fs' = [fs EXCEPT ![path] = WriteAll(FileCreate(f), HeaderLine)]
                        /\ free' = free + Len(f.content) - 1
                        /\ fresh' = [fresh EXCEPT ![idx] = ~f.exists]
                        /\ Advance("fetch")
                   ELSE \* write_all(...).unwrap() panics, the file is already truncated
                        /\ fs' = [fs EXCEPT ![path] = FileCreate(f)]
                        /\ free' = free + Len(f.content)
                        /\ pc' = "panicked"
                        /\ UNCHANGED <<idx, fresh>>
    /\ report' = NoError
    /\ UNCHANGED <<dirWritable, price, outcome, fetched, streak>>

Initialize == \E written \in BOOLEAN : EnsureInitialized(written)

\* FetchPrice with a `break` in the Err arm: a failed fetch ends the cycle.
FetchPrice_abort(resp) ==
    /\ pc = "fetch"
    /\ fetched' = Append(fetched, assets[idx].name)
    /\ LET r == fetch_price(assets[idx], resp)
       IN  IF r.ok
           THEN /\ pc' = "save"
                /\ price' = r.price
                /\ report' = NoError
                /\ UNCHANGED <<idx, outcome>>
           ELSE /\ outcome' = [outcome EXCEPT ![idx] = "failed"]
                /\ report' = r.err
                /\ idx' = 1
                /\ pc' = "sleep"
                /\ UNCHANGED price
    /\ UNCHANGED <<fs, dirWritable, free, saved, fresh, streak>>

\* match asset.fetch_price(): Ok goes on to save_to_file, Err is reported.
FetchPrice(resp) ==
    /\ pc = "fetch"
    /\ fetched' = Append(fetched, assets[idx].name)
    /\ LET r == fetch_price(assets[idx], resp)
       IN  IF r.ok
           THEN /\ pc' = "save"
                /\ price' = r.price
                /\ report' = NoError
                /\ UNCHANGED <<idx, outcome>>
           ELSE \* eprintln!("Error fetching price for {}: {}", asset.name(), e)
                /\ outcome' = [outcome EXCEPT ![idx] = "failed"]
                /\ report' = r.err
                /\ Advance("sleep")
                /\ UNCHANGED price
    /\ UNCHANGED <<fs, dirWritable, free, saved, fresh, streak>>

Fetch == \E resp \in Responses : FetchPrice(resp)

\* save_to_file opening with File::create instead of in append mode.
save_to_file_no_append(f, p, dirW, room, written) ==
    IF ~WriteOpenOk(f, dirW) THEN [file |-> f, err |-> FileError("e")]
    ELSE IF ~(written /\ room)
         THEN [file |-> FileCreate(f), err |-> FileError("e")]
    ELSE [file |-> WriteAll(FileCreate(f), RecordLine(p)), err |-> NoError]

\* asset.save_to_file(price): open for append (creating), write one line.
\* `room`: the line fits on the disk; `written`: no other I/O error.
save_to_file(f, p, dirW, room, written) ==
    IF ~WriteOpenOk(f, dirW) THEN [file |-> f, err |-> FileError("e")]
    ELSE IF ~(written /\ room)
         THEN [file |-> OpenAppend(f), err |-> FileError("e")]
    ELSE [file |-> WriteAll(OpenAppend(f), RecordLine(p)), err |-> NoError]

\* SaveToFile with the sleep inside the for loop: every save is followed by a sleep.
SaveToFile_sleep_each(written) ==
    /\ pc = "save"
    /\ LET path == SaveFilename(assets[idx])
           r == save_to_file(fs[path], price, dirWritable, free > 0, written)
       IN  /\ fs' = [fs EXCEPT ![path] = r.file]
           /\ IF r.err = NoError
              THEN /\ saved' = [saved EXCEPT ![idx] = @ + 1]
                   /\ free' = free - 1
                   /\ outcome' = [outcome EXCEPT ![idx] = "saved"]
              ELSE /\ outcome' = [outcome EXCEPT ![idx] = "failed"]
                   /\ UNCHANGED <<saved, free>>
           /\ report' = r.err
    /\ price' = 0
    /\ idx' = IF idx < Len(assets) THEN idx + 1 ELSE 1
    /\ pc' = "sleep"
    /\ UNCHANGED <<dirWritable, fresh, fetched, streak>>

\* if let Err(e) = asset.save_to_file(price) { eprintln!(...) }
SaveToFile(written) ==
    /\ pc = "save"
    /\ LET path == SaveFilename(assets[idx])
           r == save_to_file(fs[path], price, dirWritable, free > 0, written)
       IN  /\ fs' = [fs EXCEPT ![path] = r.file]
           /\ IF r.err = NoError
              THEN /\ saved' = [saved EXCEPT ![idx] = @ + 1]
                   /\ free' = free - 1
                   /\ outcome' = [outcome EXCEPT ![idx] = "saved"]
              ELSE \* eprintln!("Error saving price for {}: {}", asset.name(), e)
                   /\ outcome' = [outcome EXCEPT ![idx] = "failed"]
                   /\ UNCHANGED <<saved, free>>
           /\ report' = r.err
    /\ price' = 0
    /\ IF idx < Len(assets) THEN idx' = idx + 1 /\ pc' = "fetch"
       ELSE idx' = 1 /\ pc' = "sleep"
    /\ UNCHANGED <<dirWritable, fresh, fetched, streak>>

Save == \E written \in BOOLEAN : SaveToFile(written)

\* Sleep with a give-up rule: after two cycles in which everything failed, main returns.
Sleep_give_up ==
    /\ pc = "sleep"
    /\ pc' = IF streak >= 1 /\ \A i \in Assets : outcome[i] = "failed"
             THEN "stopped" ELSE "fetch"
    /\ idx' = 1
    /\ outcome' = Pending
    /\ report' = NoError
    /\ fetched' = << >>
    /\ streak' = IF \E i \in Assets : outcome[i] # "failed" THEN 0
                  ELSE IF streak < MaxStreak THEN streak + 1 ELSE streak
    /\ UNCHANGED <<fs, dirWritable, free, price, saved, fresh>>

\* thread::sleep(Duration::from_secs(10)), then the next cycle
Sleep ==
    /\ pc = "sleep"
    /\ pc' = "fetch"
    /\ idx' = 1
    /\ outcome' = Pending
    /\ report' = NoError
    /\ fetched' = << >>
    /\ streak' = IF \E i \in Assets : outcome[i] # "failed" THEN 0
                  ELSE IF streak < MaxStreak THEN streak + 1 ELSE streak
    /\ UNCHANGED <<fs, dirWritable, free, price, saved, fresh>>

\* The process is terminated from outside and main is entered again; the files stay.
Restart ==
    /\ pc' = "init"
    /\ idx' = 1
    /\ price' = 0
    /\ outcome' = Pending
    /\ report' = NoError
    /\ fetched' = << >>
    /\ streak' = 0
    /\ UNCHANGED <<fs, dirWritable, free, saved, fresh>>

\* What main does by itself.
Step == Initialize \/ Fetch \/ Save \/ Sleep

Next == Step \/ Restart

Spec == Init /\ [][Next]_vars

\* The process left alone: main is one thread that runs on whenever the call it is
\* in (fetch, save, sleep) returns.
LiveSpec == Init /\ [][Step]_vars /\ WF_vars(Step)

\* ---------------------------------------------------------------- properties
IsPrefix(a, b) == Len(a) <= Len(b) /\ SubSeq(b, 1, Len(a)) = a

Polling == pc \in {"fetch", "save", "sleep"}

Log(i) == fs[assets[i].filename]

\* The lines after the first are all data records.
RecordsAfterFirst(c) == \A k \in 2..Len(c) : c[k].kind = "record"

\* C1: initialization is non-destructive: a step of the initialization loop leaves
\* the content of every log that exists unchanged (so it adds no second header), and
\* gives a log that was absent exactly the header line.
C1_InitNonDestructive ==
    [][pc = "init" =>
         \A p \in Paths :
            /\ fs[p].exists => fs'[p].exists /\ fs'[p].content = fs[p].content
            /\ ~fs[p].exists /\ fs'[p].exists /\ pc' # "panicked"
                  => fs'[p].content = <<HeaderLine>>]_vars

C3_Isolation ==
    /\ [](pc = "sleep" => \A i \in Assets : outcome[i] # "pending")
    /\ [][report' # NoError =>
            /\ outcome'[idx] = "failed"
            /\ \A j \in Assets \ {idx} : outcome'[j] = outcome[j]
            /\ IF idx < Len(assets) THEN pc' = "fetch" /\ idx' = idx + 1
               ELSE pc' = "sleep"]_vars

\* C3 witness: a cycle in which the first instrument failed and the other two
\* were fetched and saved.
C3_Witness ==
    pc = "sleep" /\ outcome = <<"failed", "saved", "saved">>

\* A response that arrived as JSON but without the nested usd number of the
\* instrument asked for.
LacksUsd(resp, asset) ==
    /\ resp.status = "ok"
    /\ resp.body.wellFormed
    /\ ~(resp.body.outer = asset.id /\ resp.body.inner = "usd")

LacksUsdResponses ==
    [i \in {1, 2} |-> {r \in Responses : LacksUsd(r, assets[i])}]

\* C4: when the response to a crypto instrument's fetch lacks the nested usd
\* field, the fetch step reports a ParseError, the process does not panic, save
\* is not entered and no log changes.
C4_MalformedPayload ==
    [][(pc = "fetch" /\ idx \in {1, 2}) =>
          \A resp \in LacksUsdResponses[idx] :
              FetchPrice(resp) =>
                  /\ report'.kind = "ParseError"
                  /\ pc' \notin {"save", "panicked"}
                  /\ outcome'[idx] = "failed"
                  /\ fs' = fs]_vars

\* C4 witness: Ethereum's fetch has just reported the extraction failure.
C4_Witness ==
    /\ report = ParseError("Failed to extract Ethereum price")
    /\ pc = "fetch" /\ idx = 3
    /\ outcome[2] = "failed"

\* C5: no error ends the process: main never panics, in initialization or in
\* polling.
C5_NoErrorIsFatal == pc # "panicked"

\* C6: each log is append-only: over every step, its content before is a prefix
\* of its content after.
C6_AppendOnly ==
    [][\A p \in Paths : IsPrefix(fs[p].content, fs'[p].content)]_vars

\* C7: once initialization has completed, every log begins with the header line
\* and every following line is a data record.
C7_HeaderFirst ==
    Polling =>
        \A p \in Paths :
            /\ fs[p].exists
            /\ Len(fs[p].content) >= 1
            /\ fs[p].content[1] = HeaderLine
            /\ RecordsAfterFirst(fs[p].content)

\* C8: every cycle fetches Bitcoin, Ethereum, S&P 500 in this order, each once:
\* the fetches so far are the first instruments of the list, a save follows the
\* fetch of its own instrument and leads to the next instrument, and the sleep is
\* entered only after the third instrument and leads to the first fetch of a new
\* cycle.
C8_CycleStructure ==
    /\ [](/\ pc = "fetch" => fetched = [k \in 1..(idx - 1) |-> assets[k].name]
          /\ pc = "save" => fetched = [k \in 1..idx |-> assets[k].name]
          /\ pc = "sleep" => fetched = <<"Bitcoin", "Ethereum", "S&P 500">>)
    /\ [][~Restart =>
            /\ pc = "save" => \/ pc' = "fetch" /\ idx' = idx + 1
                              \/ pc' = "sleep" /\ idx = Len(assets)
            /\ pc = "sleep" => pc' = "fetch" /\ idx' = 1 /\ fetched' = << >>
            /\ pc' = "sleep" => pc \in {"fetch", "save"} /\ idx = Len(assets)]_vars

\* C8 witness: the third save of a cycle whose first fetch failed.
C8_Witness ==
    /\ pc = "save" /\ idx = 3
    /\ outcome[1] = "failed" /\ outcome[2] = "saved"
    /\ fetched = <<"Bitcoin", "Ethereum", "S&P 500">>

C10_LogOwnership ==
    [][\A p \in Paths :
          fs'[p] # fs[p] => p = assets[idx].filename /\ pc \in {"init", "save"}]_vars

\* C10 witness: Ethereum's log was created by initialization and appended to by a
\* save, while the other two logs are as they were at the start.
C10_Witness ==
    /\ fresh[2] /\ saved[2] = 1
    /\ fs["bitcoin_prices.csv"].content = Populated
    /\ fs["sp500_prices.csv"].content = << >>
    /\ fs["sp500_prices.csv"].exists

====
